---- MODULE Spec2Model ----
(***************************************************************************)
(* Model of the inbound message dispatcher (Inbound::try_from), the error  *)
(* normalizer (SpecializedError::from, AddTorrentError::from) of rpc.rs    *)
(* and of Session::set_event_interest of methods.rs.                       *)
(*                                                                         *)
(* Text is a sequence of one-character strings, so that prefixes, offsets  *)
(* and character classes are computed as the code computes them.  Rust     *)
(* ranges a..b over a text are SubSeq(text, a + 1, b).                     *)
(***************************************************************************)
EXTENDS Integers, Sequences, FiniteSets, TLC

VARIABLES
    data,         \* the raw message handed to Inbound::try_from
    inbound,      \* what Inbound::try_from made of it
    msg,          \* the text handed to AddTorrentError::from
    addTorrent,   \* what AddTorrentError::from made of it
    err,          \* the GenericError handed to SpecializedError::from
    specialized,  \* what SpecializedError::from made of it
    variant,      \* an AddTorrentError whose documented message is rebuilt
    renormalized, \* the normalization of that rebuilt message
    receivers,    \* number of active event receivers of the session
    wire,         \* the set_event_interest calls sent to the daemon, in order
    outcome       \* how the last set_event_interest call ended

vars == <<data, inbound, msg, addTorrent, err, specialized, variant,
          renormalized, receivers, wire, outcome>>

(***************************************************************************)
(* Bounds of the model.                                                    *)
(***************************************************************************)
\* longest raw message drawn (a tag-2 message needs 6 fields)
MaxFields == 6
\* longest remainder appended to a literal prefix
MaxTail == 2
\* most event receivers alive at once
MaxReceivers == 2
\* most set_event_interest calls recorded on the wire
MaxCalls == 2

(***************************************************************************)
(* Program constants.                                                      *)
(***************************************************************************)
\* {40} in both regular expressions: hexadecimal characters of an info hash
HashLen == 40
\* MessageType::Response
TagResponse == 1
\* MessageType::Error
TagError == 2
\* MessageType::Event
TagEvent == 3

(***************************************************************************)
(* Literal texts of rpc.rs.                                                *)
(***************************************************************************)
\* "Torrent already in session (" (28 characters)
InSessionPrefix ==
    <<"T", "o", "r", "r", "e", "n", "t", " ", "a", "l", "r", "e", "a", "d",
      "y", " ", "i", "n", " ", "s", "e", "s", "s", "i", "o", "n", " ", "(">>

\* "Torrent already being added (" (29 characters)
BeingAddedPrefix ==
    <<"T", "o", "r", "r", "e", "n", "t", " ", "a", "l", "r", "e", "a", "d",
      "y", " ", "b", "e", "i", "n", "g", " ", "a", "d", "d", "e", "d", " ",
      "(">>

\* ")." closes both hash messages
HashSuffix ==
    <<")", ".">>

\* "Unable to add magnet, invalid magnet info: " (43 characters)
MagnetPrefix ==
    <<"U", "n", "a", "b", "l", "e", " ", "t", "o", " ", "a", "d", "d", " ",
      "m", "a", "g", "n", "e", "t", ",", " ", "i", "n", "v", "a", "l", "i",
      "d", " ", "m", "a", "g", "n", "e", "t", " ", "i", "n", "f", "o", ":",
      " ">>

\* "You must specify a valid torrent_info, torrent state or magnet."
MustSpecifyText ==
    <<"Y", "o", "u", " ", "m", "u", "s", "t", " ", "s", "p", "e", "c", "i",
      "f", "y", " ", "a", " ", "v", "a", "l", "i", "d", " ", "t", "o", "r",
      "r", "e", "n", "t", "_", "i", "n", "f", "o", ",", " ", "t", "o", "r",
      "r", "e", "n", "t", " ", "s", "t", "a", "t", "e", " ", "o", "r", " ",
      "m", "a", "g", "n", "e", "t", ".">>

\* "Unable to add torrent, decoding filedump failed: " (49 characters)
FiledumpPrefix ==
    <<"U", "n", "a", "b", "l", "e", " ", "t", "o", " ", "a", "d", "d", " ",
      "t", "o", "r", "r", "e", "n", "t", ",", " ", "d", "e", "c", "o", "d",
      "i", "n", "g", " ", "f", "i", "l", "e", "d", "u", "m", "p", " ", "f",
      "a", "i", "l", "e", "d", ":", " ">>

\* "Unable to add torrent to session: " (34 characters)
ToSessionPrefix ==
    <<"U", "n", "a", "b", "l", "e", " ", "t", "o", " ", "a", "d", "d", " ",
      "t", "o", "r", "r", "e", "n", "t", " ", "t", "o", " ", "s", "e", "s",
      "s", "i", "o", "n", ":", " ">>

\* "AddTorrentError"
AddTorrentErrorName ==
    <<"A", "d", "d", "T", "o", "r", "r", "e", "n", "t", "E", "r", "r", "o",
      "r">>

(***************************************************************************)
(* serde_yaml::Value: a loosely-typed wire value.  Every value carries all *)
(* fields; k says which one is meant.                                      *)
(***************************************************************************)
EmptyMap ==
    [x \in {} |-> x]

IntV(n) ==
    [k |-> "int", i |-> n, b |-> FALSE, s |-> <<>>, l |-> <<>>, m |-> EmptyMap]

BoolV(t) ==
    [k |-> "bool", i |-> 0, b |-> t, s |-> <<>>, l |-> <<>>, m |-> EmptyMap]

StrV(t) ==
    [k |-> "str", i |-> 0, b |-> FALSE, s |-> t, l |-> <<>>, m |-> EmptyMap]

SeqV(items) ==
    [k |-> "seq", i |-> 0, b |-> FALSE, s |-> <<>>, l |-> items, m |-> EmptyMap]

MapV(f) ==
    [k |-> "map", i |-> 0, b |-> FALSE, s |-> <<>>, l |-> <<>>, m |-> f]

(***************************************************************************)
(* Results of Inbound::try_from.  A result carries all fields; kind says   *)
(* which ones are meant: "Response" (ok tells Ok(result) from Err(error)), *)
(* "Event", "DecodeError" (Err(serde_yaml::Error) returned to the caller), *)
(* "Panic" (an index out of bounds unwinds into the caller) and "pending"  *)
(* (try_from has not run yet).                                             *)
(***************************************************************************)
NoError ==
    [exception |-> <<>>, args |-> <<>>, kwargs |-> EmptyMap, traceback |-> <<>>]

NoInbound(kind) ==
    [kind |-> kind, request_id |-> 0, ok |-> FALSE, result |-> <<>>,
     error |-> NoError, event_name |-> <<>>, event_data |-> <<>>]

ResponseOk(id, list) ==
    [NoInbound("Response") EXCEPT !.request_id = id, !.ok = TRUE, !.result = list]

ResponseErr(id, e) ==
    [NoInbound("Response") EXCEPT !.request_id = id, !.error = e]

EventOf(name, list) ==
    [NoInbound("Event") EXCEPT !.event_name = name, !.event_data = list]

DecodeError ==
    NoInbound("DecodeError")

Panic ==
    NoInbound("Panic")

Pending ==
    NoInbound("pending")

(***************************************************************************)
(* serde_yaml::from_value at the types try_from asks for.  Each returns    *)
(* ok = FALSE for Err(serde_yaml::Error).                                  *)
(***************************************************************************)
\* a mutant of FromValueMessageType: the tag is truncated to u8, not checked
FromValueMessageTypeWrapping(v) ==
    IF v.k = "int" /\ (v.i % 256) \in {TagResponse, TagError, TagEvent}
    THEN [ok |-> TRUE, tag |-> v.i % 256]
    ELSE [ok |-> FALSE, tag |-> 0]

\* #[value_enum(u8)] enum MessageType { Response = 1, Error = 2, Event = 3 }
FromValueMessageType(v) ==
    IF v.k = "int" /\ v.i \in {TagResponse, TagError, TagEvent}
    THEN [ok |-> TRUE, tag |-> v.i]
    ELSE [ok |-> FALSE, tag |-> 0]

\* from_value::<i64>
FromValueI64(v) ==
    IF v.k = "int" THEN [ok |-> TRUE, i |-> v.i] ELSE [ok |-> FALSE, i |-> 0]

\* from_value::<String>
FromValueString(v) ==
    IF v.k = "str" THEN [ok |-> TRUE, s |-> v.s] ELSE [ok |-> FALSE, s |-> <<>>]

\* from_value::<List>, List = Vec<Value>
FromValueList(v) ==
    IF v.k = "seq" THEN [ok |-> TRUE, l |-> v.l] ELSE [ok |-> FALSE, l |-> <<>>]

\* from_value::<Dict>: a mapping of text to value; a key that is not text
\* does not decode
FromValueDict(v) ==
    IF v.k = "map" /\ \A key \in DOMAIN v.m : key.k = "str"
    THEN [ok |-> TRUE,
          d |-> [t \in {key.s : key \in DOMAIN v.m} |-> v.m[StrV(t)]]]
    ELSE [ok |-> FALSE, d |-> EmptyMap]

\* a mutant of GenericErrorFrom: exception and traceback change places
GenericErrorFromSwapped(exception, args, kwargs, traceback) ==
    [exception |-> traceback, args |-> args, kwargs |-> kwargs,
     traceback |-> exception]

\* impl From<(String, List, Dict, String)> for GenericError
GenericErrorFrom(exception, args, kwargs, traceback) ==
    [exception |-> exception, args |-> args, kwargs |-> kwargs,
     traceback |-> traceback]

\* from_value::<GenericError> of Value::Sequence(fields), through
\* #[serde(from = "(String, List, Dict, String)")]
FromValueGenericError(fields) ==
    IF Len(fields) # 4 THEN [ok |-> FALSE, e |-> NoError]
    ELSE LET exception == FromValueString(fields[1])
             args      == FromValueList(fields[2])
             kwargs    == FromValueDict(fields[3])
             traceback == FromValueString(fields[4])
         IN  IF exception.ok /\ args.ok /\ kwargs.ok /\ traceback.ok
             THEN [ok |-> TRUE,
                   e |-> GenericErrorFrom(exception.s, args.l, kwargs.d,
                                          traceback.s)]
             ELSE [ok |-> FALSE, e |-> NoError]

(***************************************************************************)
(* Inbound::try_from.  data[n] of the code is d[n + 1]; indexing past the  *)
(* end of the slice panics, and the operands are evaluated in the order    *)
(* they are written.                                                       *)
(***************************************************************************)
\* a mutant of ResponseArm: a payload that is not a sequence fails to decode
ResponseArmStrict(d) ==
    IF Len(d) < 2 THEN Panic
    ELSE LET request_id == FromValueI64(d[2]) IN
         IF ~request_id.ok THEN DecodeError
         ELSE IF Len(d) < 3 THEN Panic
         ELSE LET list == FromValueList(d[3]) IN
              IF list.ok THEN ResponseOk(request_id.i, list.l) ELSE DecodeError

\* MessageType::Response => Inbound::Response { request_id, result: Ok(..) }
ResponseArm(d) ==
    IF Len(d) < 2 THEN Panic
    ELSE LET request_id == FromValueI64(d[2]) IN
         IF ~request_id.ok THEN DecodeError
         ELSE IF Len(d) < 3 THEN Panic
         ELSE LET list == FromValueList(d[3]) IN
              ResponseOk(request_id.i, IF list.ok THEN list.l ELSE <<d[3]>>)

\* MessageType::Error => Inbound::Response { request_id, result: Err(..) }
ErrorArm(d) ==
    IF Len(d) < 2 THEN Panic
    ELSE LET request_id == FromValueI64(d[2]) IN
         IF ~request_id.ok THEN DecodeError
         ELSE IF Len(d) < 6 THEN Panic
         ELSE LET e == FromValueGenericError(SubSeq(d, 3, 6)) IN
              IF e.ok THEN ResponseErr(request_id.i, e.e) ELSE DecodeError

\* a mutant of EventArm: event data that is not a sequence is wrapped, as a
\* response payload is
EventArmWrapping(d) ==
    IF Len(d) < 2 THEN Panic
    ELSE LET event_name == FromValueString(d[2]) IN
         IF ~event_name.ok THEN DecodeError
         ELSE IF Len(d) < 3 THEN Panic
         ELSE LET list == FromValueList(d[3]) IN
              EventOf(event_name.s, IF list.ok THEN list.l ELSE <<d[3]>>)

\* MessageType::Event => Inbound::Event { event_name, data }
EventArm(d) ==
    IF Len(d) < 2 THEN Panic
    ELSE LET event_name == FromValueString(d[2]) IN
         IF ~event_name.ok THEN DecodeError
         ELSE IF Len(d) < 3 THEN Panic
         ELSE LET list == FromValueList(d[3]) IN
              IF list.ok THEN EventOf(event_name.s, list.l) ELSE DecodeError

\* fn try_from(data: &[Value]) -> serde_yaml::Result<Self>
InboundTryFrom(d) ==
    IF Len(d) < 1 THEN Panic
    ELSE LET msg_type == FromValueMessageType(d[1]) IN
         IF ~msg_type.ok THEN DecodeError
         ELSE CASE msg_type.tag = TagResponse -> ResponseArm(d)
                [] msg_type.tag = TagError    -> ErrorArm(d)
                [] msg_type.tag = TagEvent    -> EventArm(d)

(***************************************************************************)
(* Text helpers: character classes, slices and prefixes as the regular     *)
(* expressions, &msg[a..b] and str::strip_prefix compute them.             *)
(***************************************************************************)
\* the character class [0-9a-fA-F]
HexDigits ==
    {"0", "1", "2", "3", "4", "5", "6", "7", "8", "9",
     "a", "b", "c", "d", "e", "f", "A", "B", "C", "D", "E", "F"}

\* the value of one hexadecimal digit, in either case
HexVal(c) ==
    CASE c = "0" -> 0 [] c = "1" -> 1 [] c = "2" -> 2 [] c = "3" -> 3
      [] c = "4" -> 4 [] c = "5" -> 5 [] c = "6" -> 6 [] c = "7" -> 7
      [] c = "8" -> 8 [] c = "9" -> 9
      [] c \in {"a", "A"} -> 10 [] c \in {"b", "B"} -> 11
      [] c \in {"c", "C"} -> 12 [] c \in {"d", "D"} -> 13
      [] c \in {"e", "E"} -> 14 [] c \in {"f", "F"} -> 15

\* number of bytes of an info hash: two hexadecimal digits a byte
HashBytes ==
    HashLen \div 2

\* InfoHash::from_hex: the bytes of a text of exactly HashLen hexadecimal
\* digits; any other text is an Err, on which the caller's unwrap panics
FromHex(t) ==
    IF Len(t) = HashLen /\ \A n \in 1..Len(t) : t[n] \in HexDigits
    THEN [ok |-> TRUE,
          hash |-> [n \in 1..HashBytes |->
                       16 * HexVal(t[2 * n - 1]) + HexVal(t[2 * n])]]
    ELSE [ok |-> FALSE, hash |-> <<>>]

\* &t[a..b]: bytes a (included) to b (excluded); out of range panics
Slice(t, a, b) ==
    IF a <= b /\ b <= Len(t)
    THEN [ok |-> TRUE, s |-> SubSeq(t, a + 1, b)]
    ELSE [ok |-> FALSE, s |-> <<>>]

\* a mutant of StripPrefix: the remainder keeps the prefix's last character
StripPrefixShort(t, prefix) ==
    IF Len(t) >= Len(prefix) /\ SubSeq(t, 1, Len(prefix)) = prefix
    THEN [ok |-> TRUE, s |-> SubSeq(t, Len(prefix), Len(t))]
    ELSE [ok |-> FALSE, s |-> <<>>]

\* msg.strip_prefix(prefix): Some(remainder) when msg starts with prefix
StripPrefix(t, prefix) ==
    IF Len(t) >= Len(prefix) /\ SubSeq(t, 1, Len(prefix)) = prefix
    THEN [ok |-> TRUE, s |-> SubSeq(t, Len(prefix) + 1, Len(t))]
    ELSE [ok |-> FALSE, s |-> <<>>]

\* ^prefix[0-9a-fA-F]{40}\)\.$ : the whole text is the prefix, HashLen
\* hexadecimal digits and ")."; $ matches at the end of the text only
IsHashMatch(t, prefix) ==
    /\ Len(t) = Len(prefix) + HashLen + Len(HashSuffix)
    /\ SubSeq(t, 1, Len(prefix)) = prefix
    /\ \A n \in (Len(prefix) + 1)..(Len(prefix) + HashLen) : t[n] \in HexDigits
    /\ SubSeq(t, Len(prefix) + HashLen + 1, Len(t)) = HashSuffix

\* regex!(r"^Torrent already in session \([0-9a-fA-F]{40}\)\.$").is_match
IsMatchInSession(t) ==
    IsHashMatch(t, InSessionPrefix)

\* regex!(r"^Torrent already being added \([0-9a-fA-F]{40}\)\.$").is_match
IsMatchBeingAdded(t) ==
    IsHashMatch(t, BeingAddedPrefix)

(***************************************************************************)
(* AddTorrentError and AddTorrentError::from.  tag is the variant; "Panic" *)
(* is an unwrap of Err or a slice out of range; "pending": not run yet.    *)
(***************************************************************************)
AddTorrentOf(tag, hash, text) ==
    [tag |-> tag, hash |-> hash, text |-> text]

AddTorrentPanic ==
    AddTorrentOf("Panic", <<>>, <<>>)

AddTorrentPending ==
    AddTorrentOf("pending", <<>>, <<>>)

\* Self::X(InfoHash::from_hex(&msg[a..b]).unwrap())
HashVariant(tag, t, a, b) ==
    LET hex == Slice(t, a, b) IN
    IF ~hex.ok THEN AddTorrentPanic
    ELSE LET parsed == FromHex(hex.s) IN
         IF parsed.ok THEN AddTorrentOf(tag, parsed.hash, <<>>)
         ELSE AddTorrentPanic

\* a mutant of InSessionVariant: the offsets are one too small
InSessionVariantShifted(t) ==
    HashVariant("AlreadyInSession", t, 27, 67)

\* Self::AlreadyInSession(InfoHash::from_hex(&msg[28..68]).unwrap())
InSessionVariant(t) ==
    HashVariant("AlreadyInSession", t, 28, 68)

\* a mutant of BeingAddedVariant: the offsets of the other message are used
BeingAddedVariantShifted(t) ==
    HashVariant("AlreadyBeingAdded", t, 28, 68)

\* Self::AlreadyBeingAdded(InfoHash::from_hex(&msg[29..69]).unwrap())
BeingAddedVariant(t) ==
    HashVariant("AlreadyBeingAdded", t, 29, 69)

\* fn from(msg: &str) -> Self
AddTorrentErrorFrom(t) ==
    IF IsMatchInSession(t) THEN InSessionVariant(t)
    ELSE IF IsMatchBeingAdded(t) THEN BeingAddedVariant(t)
    ELSE IF StripPrefix(t, MagnetPrefix).ok
    THEN AddTorrentOf("UnableToAddMagnet", <<>>, StripPrefix(t, MagnetPrefix).s)
    ELSE IF t = MustSpecifyText
    THEN AddTorrentOf("MustSpecifyValidTorrent", <<>>, <<>>)
    ELSE IF StripPrefix(t, FiledumpPrefix).ok
    THEN AddTorrentOf("DecodingFiledumpFailed", <<>>,
                      StripPrefix(t, FiledumpPrefix).s)
    ELSE IF StripPrefix(t, ToSessionPrefix).ok
    THEN AddTorrentOf("UnableToAddToSession", <<>>,
                      StripPrefix(t, ToSessionPrefix).s)
    ELSE AddTorrentOf("Other", <<>>, t)

(***************************************************************************)
(* SpecializedError and SpecializedError::from.                            *)
(***************************************************************************)
SpecializedOf(tag, add, generic) ==
    [tag |-> tag, add |-> add, generic |-> generic]

SpecializedPending ==
    SpecializedOf("pending", AddTorrentPending, NoError)

\* a mutant of SpecializedErrorFrom: the first argument is matched, however
\* many arguments follow it
SpecializedErrorFromFirstArg(e) ==
    IF e.exception = AddTorrentErrorName /\ Len(e.args) >= 1
       /\ e.args[1].k = "str"
    THEN LET add == AddTorrentErrorFrom(e.args[1].s) IN
         IF add.tag = "Panic" THEN SpecializedOf("Panic", AddTorrentPending, NoError)
         ELSE SpecializedOf("AddTorrent", add, NoError)
    ELSE SpecializedOf("Generic", AddTorrentPending, e)

\* fn from(err: GenericError) -> Self
SpecializedErrorFrom(e) ==
    IF e.exception = AddTorrentErrorName /\ Len(e.args) = 1
       /\ e.args[1].k = "str"
    THEN LET add == AddTorrentErrorFrom(e.args[1].s) IN
         IF add.tag = "Panic" THEN SpecializedOf("Panic", AddTorrentPending, NoError)
         ELSE SpecializedOf("AddTorrent", add, NoError)
    ELSE SpecializedOf("Generic", AddTorrentPending, e)

(***************************************************************************)
(* Inputs of the dispatcher: raw messages of 1..MaxFields fields.          *)
(***************************************************************************)
\* a mapping whose keys are text, and one with a key that is not
TextKeyed ==
    MapV([key \in {StrV(<<"k">>)} |-> IntV(5)])

IntKeyed ==
    MapV([key \in {IntV(1)} |-> IntV(5)])

\* what element 0 may be: the three tags, other integers, and non-integers
TagValues ==
    {IntV(n) : n \in {-1, 0, TagResponse, TagError, TagEvent, 4, 257}}
        \cup {StrV(<<"1">>), BoolV(TRUE)}

\* what any later element may be
FieldValues ==
    {IntV(7), StrV(<<"e">>), StrV(<<"t", "b">>),
     SeqV(<<IntV(1), StrV(<<"x">>)>>), TextKeyed, IntKeyed}

\* the raw messages of a tag and n further elements
MessagesOf(n) ==
    {<<tag>> \o rest : tag \in TagValues, rest \in [1..n -> FieldValues]}

(***************************************************************************)
(* Inputs of AddTorrentError::from: the literal messages with remainders   *)
(* and hashes, near misses of them, and messages nested in one another.    *)
(***************************************************************************)
Rep(c, n) ==
    [j \in 1..n |-> c]

RECURSIVE TextsUpTo(_, _)
TextsUpTo(chars, n) ==
    IF n = 0 THEN {<<>>}
    ELSE LET shorter == TextsUpTo(chars, n - 1) IN
         shorter \cup {t \o <<c>> : t \in shorter, c \in chars}

Tails ==
    TextsUpTo({"b", " ", "."}, MaxTail)

\* HashLen - 1 .. HashLen + 1 characters, hexadecimal in both cases or not
HashBodies ==
    {Rep(c1, n) \o Rep(c2, len - n) :
        c1 \in {"a", "F", "0", "g"}, c2 \in {"a", "9", "(", "G"},
        n \in {0, 1, HashLen - 1}, len \in (HashLen - 1)..(HashLen + 1)}

HashClosers ==
    {HashSuffix, <<")">>, <<".", ")">>, HashSuffix \o <<"\n">>,
     HashSuffix \o <<" ">>}

Literals ==
    {InSessionPrefix, BeingAddedPrefix, MagnetPrefix, MustSpecifyText,
     FiledumpPrefix, ToSessionPrefix}

\* a literal, a literal without its first or last character, and nothing
Heads ==
    Literals \cup {Tail(t) : t \in Literals}
             \cup {SubSeq(t, 1, Len(t) - 1) : t \in Literals} \cup {<<>>}

HashTexts ==
    {lead \o prefix \o body \o closer :
        lead \in {<<>>, <<" ">>},
        prefix \in {InSessionPrefix, BeingAddedPrefix},
        body \in HashBodies, closer \in HashClosers}

Texts ==
    {head \o tail : head \in Heads, tail \in Tails}
        \cup {outer \o inner \o tail :
                outer \in Literals, inner \in Literals, tail \in Tails}
        \cup HashTexts

(***************************************************************************)
(* Inputs of SpecializedError::from.                                       *)
(***************************************************************************)
\* "SomeOtherException"
SomeOtherName ==
    <<"S", "o", "m", "e", "O", "t", "h", "e", "r", "E", "x", "c", "e", "p",
      "t", "i", "o", "n">>

ExceptionNames ==
    {AddTorrentErrorName, SomeOtherName, Tail(AddTorrentErrorName),
     AddTorrentErrorName \o <<"s">>, <<>>}

ArgTexts ==
    {InSessionPrefix \o Rep("a", HashLen) \o HashSuffix,
     BeingAddedPrefix \o Rep("F", HashLen) \o HashSuffix,
     MagnetPrefix \o <<"b">>, MustSpecifyText, FiledumpPrefix,
     ToSessionPrefix \o <<"b">>, <<"b">>}

ArgLists ==
    {<<>>, <<IntV(1)>>, <<SeqV(<<StrV(MustSpecifyText)>>)>>}
        \cup {<<StrV(t)>> : t \in ArgTexts}
        \cup {<<StrV(t), StrV(t)>> : t \in ArgTexts}
        \cup {<<StrV(t), IntV(1)>> : t \in ArgTexts}

GenericErrors ==
    {GenericErrorFrom(exception, args, kwargs, traceback) :
        exception \in ExceptionNames, args \in ArgLists,
        kwargs \in {EmptyMap, [key \in {<<"k">>} |-> IntV(5)]},
        traceback \in {<<>>, <<"t", "b">>}}

(***************************************************************************)
(* The AddTorrentError variants other than Other, with their payloads, and *)
(* the documented message of each.                                         *)
(***************************************************************************)
Hashes ==
    {[j \in 1..HashBytes |-> IF j <= n THEN b1 ELSE b2] :
        b1 \in {0, 10, 171, 255}, b2 \in {0, 9, 160, 254}, n \in {0, 1, HashBytes - 1}}

Variants ==
    {AddTorrentOf(tag, hash, <<>>) :
        tag \in {"AlreadyInSession", "AlreadyBeingAdded"}, hash \in Hashes}
        \cup {AddTorrentOf(tag, <<>>, tail) :
                tag \in {"UnableToAddMagnet", "DecodingFiledumpFailed",
                         "UnableToAddToSession"},
                tail \in Tails \cup Literals}
        \cup {AddTorrentOf("MustSpecifyValidTorrent", <<>>, <<>>)}

\* one hexadecimal digit of a nibble, in lower or upper case
HexDigit(n, upper) ==
    IF upper
    THEN <<"0", "1", "2", "3", "4", "5", "6", "7", "8", "9",
           "A", "B", "C", "D", "E", "F">>[n + 1]
    ELSE <<"0", "1", "2", "3", "4", "5", "6", "7", "8", "9",
           "a", "b", "c", "d", "e", "f">>[n + 1]

\* a hash rendered as HashLen hexadecimal digits
ToHex(hash, upper) ==
    [j \in 1..(2 * Len(hash)) |->
        IF j % 2 = 1 THEN HexDigit(hash[(j + 1) \div 2] \div 16, upper)
        ELSE HexDigit(hash[j \div 2] % 16, upper)]

\* the message the daemon words a variant with
MessageOf(v, upper) ==
    CASE v.tag = "AlreadyInSession" ->
            InSessionPrefix \o ToHex(v.hash, upper) \o HashSuffix
      [] v.tag = "AlreadyBeingAdded" ->
            BeingAddedPrefix \o ToHex(v.hash, upper) \o HashSuffix
      [] v.tag = "UnableToAddMagnet" -> MagnetPrefix \o v.text
      [] v.tag = "MustSpecifyValidTorrent" -> MustSpecifyText
      [] v.tag = "DecodingFiledumpFailed" -> FiledumpPrefix \o v.text
      [] v.tag = "UnableToAddToSession" -> ToSessionPrefix \o v.text

(***************************************************************************)
(* The session: event receivers and set_event_interest.                    *)
(***************************************************************************)
EventKinds ==
    {"TorrentAdded", "TorrentRemoved"}

\* what the daemon answers to a call that was sent
Replies ==
    {"Ok(true)", "Ok(false)", "Err"}

OutcomeOf(kind, events, result) ==
    [kind |-> kind, events |-> events, result |-> result]

NoCall ==
    OutcomeOf("none", {}, "none")

\* events.iter().copied().collect(): every element once, in any order
KeysOf(events) ==
    {keys \in [1..Cardinality(events) -> events] :
        {keys[j] : j \in 1..Cardinality(events)} = events}

(***************************************************************************)
(* States each part rests in while another part runs.                      *)
(***************************************************************************)
IdleDispatcher ==
    data = <<>> /\ inbound = Pending

IdleAddTorrent ==
    msg = <<>> /\ addTorrent = AddTorrentPending

IdleNormalizer ==
    err = NoError /\ specialized = SpecializedPending

IdleRoundTrip ==
    variant = AddTorrentPending /\ renormalized = SpecializedPending

IdleSession ==
    receivers = 0 /\ wire = <<>> /\ outcome = NoCall

(***************************************************************************)
(* Dispatcher: one raw message is decoded.                                 *)
(***************************************************************************)
InitDispatcher ==
    /\ \E n \in 0..(MaxFields - 1) : data \in MessagesOf(n)
    /\ inbound = Pending
    /\ IdleAddTorrent /\ IdleNormalizer /\ IdleRoundTrip /\ IdleSession

TryFrom ==
    /\ inbound = Pending
    /\ inbound' = InboundTryFrom(data)
    /\ UNCHANGED <<data, msg, addTorrent, err, specialized, variant,
                   renormalized, receivers, wire, outcome>>

NextDispatcher ==
    TryFrom

SpecDispatcher ==
    InitDispatcher /\ [][NextDispatcher]_vars

(***************************************************************************)
(* AddTorrentError::from applied to one text.                              *)
(***************************************************************************)
InitAddTorrent ==
    /\ msg \in Texts
    /\ addTorrent = AddTorrentPending
    /\ IdleDispatcher /\ IdleNormalizer /\ IdleRoundTrip /\ IdleSession

FromText ==
    /\ addTorrent = AddTorrentPending
    /\ addTorrent' = AddTorrentErrorFrom(msg)
    /\ UNCHANGED <<data, inbound, msg, err, specialized, variant,
                   renormalized, receivers, wire, outcome>>

NextAddTorrent ==
    FromText

SpecAddTorrent ==
    InitAddTorrent /\ [][NextAddTorrent]_vars

(***************************************************************************)
(* SpecializedError::from applied to one GenericError.                     *)
(***************************************************************************)
InitNormalizer ==
    /\ err \in GenericErrors
    /\ specialized = SpecializedPending
    /\ IdleDispatcher /\ IdleAddTorrent /\ IdleRoundTrip /\ IdleSession

Normalize ==
    /\ specialized = SpecializedPending
    /\ specialized' = SpecializedErrorFrom(err)
    /\ UNCHANGED <<data, inbound, msg, addTorrent, err, variant,
                   renormalized, receivers, wire, outcome>>

NextNormalizer ==
    Normalize

SpecNormalizer ==
    InitNormalizer /\ [][NextNormalizer]_vars

(***************************************************************************)
(* Round trip: the documented message of a variant is normalized again.    *)
(***************************************************************************)
InitRoundTrip ==
    /\ variant \in Variants
    /\ renormalized = SpecializedPending
    /\ IdleDispatcher /\ IdleAddTorrent /\ IdleNormalizer /\ IdleSession

Renormalize ==
    /\ renormalized = SpecializedPending
    /\ \E upper \in BOOLEAN :
          renormalized' = SpecializedErrorFrom(
              GenericErrorFrom(AddTorrentErrorName,
                               <<StrV(MessageOf(variant, upper))>>,
                               EmptyMap, <<>>))
    /\ UNCHANGED <<data, inbound, msg, addTorrent, err, specialized, variant,
                   receivers, wire, outcome>>

NextRoundTrip ==
    Renormalize

SpecRoundTrip ==
    InitRoundTrip /\ [][NextRoundTrip]_vars

(***************************************************************************)
(* Session operations.                                                     *)
(***************************************************************************)
InitSession ==
    /\ receivers = 0
    /\ wire = <<>>
    /\ outcome = NoCall
    /\ IdleDispatcher /\ IdleAddTorrent /\ IdleNormalizer /\ IdleRoundTrip

\* subscribe_events(): one more active receiver handle
SubscribeEvents ==
    /\ receivers < MaxReceivers
    /\ receivers' = receivers + 1
    /\ UNCHANGED <<data, inbound, msg, addTorrent, err, specialized, variant,
                   renormalized, wire, outcome>>

\* a receiver handle is dropped
DropReceiver ==
    /\ receivers > 0
    /\ receivers' = receivers - 1
    /\ UNCHANGED <<data, inbound, msg, addTorrent, err, specialized, variant,
                   renormalized, wire, outcome>>

\* a mutant of SetEventInterest: the assertion is missing
SetEventInterestUnchecked(events) ==
    /\ Len(wire) < MaxCalls
    /\ \E keys \in KeysOf(events), reply \in Replies :
          /\ wire' = Append(wire, keys)
          /\ outcome' = OutcomeOf("Returned", events, reply)
    /\ UNCHANGED <<data, inbound, msg, addTorrent, err, specialized, variant,
                   renormalized, receivers>>

\* pub async fn set_event_interest(&mut self, events: &HashSet<EventKind>)
SetEventInterest(events) ==
    /\ IF receivers > 0
       THEN /\ Len(wire) < MaxCalls
            /\ \E keys \in KeysOf(events), reply \in Replies :
                  /\ wire' = Append(wire, keys)
                  /\ outcome' = OutcomeOf("Returned", events, reply)
       ELSE /\ wire' = wire
            /\ outcome' = OutcomeOf("Panic", events, "none")
    /\ UNCHANGED <<data, inbound, msg, addTorrent, err, specialized, variant,
                   renormalized, receivers>>

NextSession ==
    \/ SubscribeEvents
    \/ DropReceiver
    \/ \E events \in SUBSET EventKinds : SetEventInterest(events)

SpecSession ==
    InitSession /\ [][NextSession]_vars

(***************************************************************************)
(* Properties of the dispatcher, under SpecDispatcher.                     *)
(***************************************************************************)
Decoded ==
    inbound.kind # "pending"

HasTag(n) ==
    data[1].k = "int" /\ data[1].i = n

\* C1: a message whose tag is 1, 2 or 3 but which lacks a required position
\* (fewer than 3 elements for tag 1 or 3, fewer than 6 for tag 2) fails
\* with a decode error returned to the caller; it never panics.
C1_ShortMessageIsDecodeError ==
    (/\ Decoded
     /\ \/ (HasTag(TagResponse) \/ HasTag(TagEvent)) /\ Len(data) < 3
        \/ HasTag(TagError) /\ Len(data) < 6)
        => inbound = DecodeError

\* C2: a message whose element 0 is not one of the tags 1, 2, 3 is a decode
\* error and no panic, whatever and however many the other elements are.
C2_UnknownTagIsDecodeError ==
    (Decoded /\ ~(HasTag(TagResponse) \/ HasTag(TagError) \/ HasTag(TagEvent)))
        => inbound = DecodeError

\* a one-element message whose tag is 257 was refused
C2_Witness ==
    inbound = DecodeError /\ data = <<IntV(257)>>

\* C3: a tag-1 message with an integer request id yields Response with
\* Ok(payload) when the payload at position 2 is a sequence and with
\* Ok([payload]) when it is not; the payload's shape never fails decoding.
C3_ResponsePayload ==
    (Decoded /\ HasTag(TagResponse) /\ Len(data) >= 3 /\ data[2].k = "int")
        => inbound = ResponseOk(data[2].i,
                                IF data[3].k = "seq" THEN data[3].l
                                ELSE <<data[3]>>)

\* a mapping payload was wrapped into a one-element result
C3_Witness ==
    /\ inbound.kind = "Response" /\ inbound.ok
    /\ data[3].k = "map" /\ inbound.result = <<data[3]>>

\* the keyword arguments hold what the wire mapping holds, key by key
SameEntries(kwargs, m) ==
    /\ DOMAIN kwargs = {key.s : key \in DOMAIN m}
    /\ \A key \in DOMAIN m : kwargs[key.s] = m[key]

\* positions 2..5 are (text, sequence, mapping of text to value, text)
ErrorShape ==
    /\ data[3].k = "str" /\ data[4].k = "seq" /\ data[6].k = "str"
    /\ data[5].k = "map" /\ \A key \in DOMAIN data[5].m : key.k = "str"

\* C4: a tag-2 message with an integer request id and positions 2..5 of
\* shape (text, sequence, mapping, text) yields Response with
\* Err(GenericError) whose four fields are positions 2, 3, 4, 5 unmodified;
\* with any other types at positions 2..5 it is a decode error.
C4_ErrorFields ==
    (Decoded /\ HasTag(TagError) /\ Len(data) >= 6 /\ data[2].k = "int")
        => IF ErrorShape
           THEN /\ inbound.kind = "Response" /\ ~inbound.ok
                /\ inbound.request_id = data[2].i
                /\ inbound.error.exception = data[3].s
                /\ inbound.error.args = data[4].l
                /\ SameEntries(inbound.error.kwargs, data[5].m)
                /\ inbound.error.traceback = data[6].s
           ELSE inbound = DecodeError

\* an error with different exception and traceback texts was decoded
C4_Witness ==
    /\ inbound.kind = "Response" /\ ~inbound.ok
    /\ inbound.error.exception # inbound.error.traceback
    /\ DOMAIN inbound.error.kwargs # {}
    /\ Len(inbound.error.args) = 2

\* C5: a tag-3 message with text at position 1 and a sequence at position 2
\* yields Event{event_name, data} with the data in order; otherwise it is
\* a decode error: event data that is no sequence is not wrapped.
C5_EventFields ==
    (Decoded /\ HasTag(TagEvent) /\ Len(data) >= 3)
        => IF data[2].k = "str" /\ data[3].k = "seq"
           THEN inbound = EventOf(data[2].s, data[3].l)
           ELSE inbound = DecodeError

\* event data that is a mapping was refused, under a text event name
C5_Witness ==
    /\ inbound = DecodeError /\ HasTag(TagEvent) /\ Len(data) >= 3
    /\ data[2].k = "str" /\ data[3].k = "map"

(***************************************************************************)
(* Properties of the normalizer.                                           *)
(***************************************************************************)
\* the exception is AddTorrentError and args is exactly one text value
OneTextArg(e) ==
    e.exception = AddTorrentErrorName /\ Len(e.args) = 1 /\ e.args[1].k = "str"

\* C6 (SpecNormalizer): normalization is total and specializes only an
\* AddTorrentError whose args is exactly one text; every other GenericError
\* comes back as Generic(e) with its four fields equal to the input's.
C6_SpecializesOnlyOneTextArg ==
    specialized.tag # "pending"
        => /\ specialized.tag # "Panic"
           /\ specialized.tag = "AddTorrent" <=> OneTextArg(err)
           /\ ~OneTextArg(err)
                 => /\ specialized.tag = "Generic"
                    /\ specialized.generic.exception = err.exception
                    /\ specialized.generic.args = err.args
                    /\ specialized.generic.kwargs = err.kwargs
                    /\ specialized.generic.traceback = err.traceback

\* an AddTorrentError with two text arguments, keyword arguments and a
\* traceback came back as Generic
C6_Witness ==
    /\ specialized.tag = "Generic"
    /\ err.exception = AddTorrentErrorName
    /\ Len(err.args) = 2 /\ err.args[1].k = "str"
    /\ DOMAIN err.kwargs # {} /\ err.traceback # <<>>

\* the characters between "(" and ")." of a text that starts with prefix
Between(t, prefix) ==
    SubSeq(t, Len(prefix) + 1, Len(t) - Len(HashSuffix))

\* the text is prefix, HashLen hexadecimal digits and ").", and no more
FullMatch(t, prefix) ==
    /\ Len(t) >= Len(prefix) + Len(HashSuffix)
    /\ t = prefix \o Between(t, prefix) \o HashSuffix
    /\ Len(Between(t, prefix)) = HashLen
    /\ \A n \in 1..HashLen : Between(t, prefix)[n] \in HexDigits

\* C7 (SpecAddTorrent): a text that matches one of the two hash messages in
\* full yields AlreadyInSession(hash) or AlreadyBeingAdded(hash), hash
\* being the 40 hexadecimal characters between the parentheses, and the
\* hash always parses: the unwrap never panics.
C7_HashBetweenParentheses ==
    addTorrent.tag # "pending"
        => /\ FullMatch(msg, InSessionPrefix)
                 => /\ addTorrent.tag = "AlreadyInSession"
                    /\ FromHex(Between(msg, InSessionPrefix)).ok
                    /\ addTorrent.hash
                          = FromHex(Between(msg, InSessionPrefix)).hash
           /\ FullMatch(msg, BeingAddedPrefix)
                 => /\ addTorrent.tag = "AlreadyBeingAdded"
                    /\ FromHex(Between(msg, BeingAddedPrefix)).ok
                    /\ addTorrent.hash
                          = FromHex(Between(msg, BeingAddedPrefix)).hash

\* an already-in-session message whose hash ends in 9 gave a hash that ends
\* in the byte 0xa9
C7_Witness ==
    /\ addTorrent.tag = "AlreadyInSession"
    /\ msg[Len(msg) - Len(HashSuffix)] = "9"
    /\ addTorrent.hash[HashBytes] = 169

\* the text starts with the prefix
StartsWith(t, prefix) ==
    Len(t) >= Len(prefix) /\ SubSeq(t, 1, Len(prefix)) = prefix

\* the six patterns, in the documented order
Pattern(n, t) ==
    CASE n = 1 -> FullMatch(t, InSessionPrefix)
      [] n = 2 -> FullMatch(t, BeingAddedPrefix)
      [] n = 3 -> StartsWith(t, MagnetPrefix)
      [] n = 4 -> t = MustSpecifyText
      [] n = 5 -> StartsWith(t, FiledumpPrefix)
      [] n = 6 -> StartsWith(t, ToSessionPrefix)

\* the variant and the literal of each pattern
VariantOf ==
    <<"AlreadyInSession", "AlreadyBeingAdded", "UnableToAddMagnet",
      "MustSpecifyValidTorrent", "DecodingFiledumpFailed",
      "UnableToAddToSession">>

LiteralOf ==
    <<InSessionPrefix, BeingAddedPrefix, MagnetPrefix, MustSpecifyText,
      FiledumpPrefix, ToSessionPrefix>>

Matching(t) ==
    {n \in 1..6 : Pattern(n, t)}

\* C8 (SpecAddTorrent): the result is the variant of the first pattern that
\* matches, in the documented order; a prefix variant carries exactly the
\* text after its prefix; no text matches two patterns; a text that matches
\* none is Other(text) with the whole text, never a failure.
C8_FirstMatchWins ==
    addTorrent.tag # "pending"
        => /\ addTorrent.tag # "Panic"
           /\ Cardinality(Matching(msg)) <= 1
           /\ \A n \in Matching(msg) :
                 (\A k \in Matching(msg) : n <= k)
                    => /\ addTorrent.tag = VariantOf[n]
                       /\ n \in {3, 5, 6}
                             => msg = LiteralOf[n] \o addTorrent.text
           /\ Matching(msg) = {}
                 => addTorrent = AddTorrentOf("Other", <<>>, msg)

\* a magnet message whose remainder is itself an add-to-session message
\* came back as UnableToAddMagnet with that remainder
C8_Witness ==
    /\ addTorrent.tag = "UnableToAddMagnet"
    /\ StartsWith(addTorrent.text, ToSessionPrefix)
    /\ Len(addTorrent.text) > Len(ToSessionPrefix)

\* C9 (SpecRoundTrip): for every variant other than Other and every
\* payload, normalizing the documented message built from the payload
\* yields the same variant with the same payload.
C9_RoundTrip ==
    renormalized.tag # "pending"
        => renormalized = SpecializedOf("AddTorrent", variant, NoError)

\* an AlreadyBeingAdded whose hash starts with the byte 0xab came back
C9_Witness ==
    /\ renormalized.tag = "AddTorrent"
    /\ renormalized.add.tag = "AlreadyBeingAdded"
    /\ renormalized.add.hash[1] = 171 /\ renormalized.add.hash[HashBytes] = 9

(***************************************************************************)
(* Property of the session, under SpecSession.                             *)
(***************************************************************************)
\* C10: set_event_interest is never sent while the session has no active
\* event receiver: a call made with none panics before anything is sent
\* and returns no Result, and a call made with at least one sends the wire
\* call with exactly the requested event kinds.
C10_NoInterestWithoutReceiver ==
    [][(wire' # wire \/ outcome' # outcome)
          => IF receivers = 0
             THEN wire' = wire /\ outcome'.kind = "Panic"
             ELSE /\ outcome'.kind = "Returned"
                  /\ Len(wire') = Len(wire) + 1
                  /\ SubSeq(wire', 1, Len(wire)) = wire
                  /\ LET keys == wire'[Len(wire')] IN
                        /\ {keys[j] : j \in 1..Len(keys)} = outcome'.events
                        /\ Len(keys) = Cardinality(outcome'.events)]_vars

\* a call panicked with no receiver left, after an earlier call with both
\* event kinds had been sent
C10_Witness ==
    /\ receivers = 0 /\ outcome.kind = "Panic"
    /\ Len(wire) = 1 /\ Len(wire[1]) = 2

====
